---- MODULE Spec2Model ----
(***************************************************************************)
(* dorisloader: the bulk processor (bulk_processor.go), its workers        *)
(* (bulkWorker) and the per-worker bulk service (bulk_service.go).         *)
(*                                                                         *)
(* Goroutines: the callers of Start/Close/Add/Flush (Clients), the         *)
(* periodic flusher, and the workers.  Unbuffered channels are modelled as *)
(* rendezvous: one action moves the sender and the receiver together.      *)
(* An unrecovered panic (send on a closed channel) ends the program:       *)
(* crashed becomes TRUE and nothing runs afterwards.                       *)
(***************************************************************************)
EXTENDS Integers, Sequences, FiniteSets, Bags, TLC

\* ---------------------------------------------------------------- bounds
\* Add calls accepted by a worker in one run.
MaxAdds == 3
\* Commit attempts the transport may fail in one run.
MaxFails == 2
\* Start calls that spawn a pool in one run.
MaxStarts == 2
\* Attempts the backoff schedule allows for one commit.
MaxAttempts == 2
\* Largest pool of one Start.
MaxPool == 2
\* Calls of Start, Close, Add and Flush the clients make in one run.
MaxCalls == 4
\* Calls the clients make in one run of the fair specification.
FairCalls == 3
\* Records submitted in the scenario of sequential submission.
ScenarioRecords == 7
\* Largest batch of the service driven on its own.
MaxRows == 4

\* The byte that bodyAsString writes after every row.
NL == 10

\* Rows a caller may submit: byte sequences of different lengths.
Records == {<<1>>, <<2, 3>>}

Clients == {"c1", "c2"}
Flusher == "flusher"
Procs == Clients \cup {Flusher}
WorkerIds == 1 .. (MaxStarts * MaxPool)

\* Configurations handed to NewBulkProcessor.
Configs ==
  { [bulkActions |-> 2,  bulkSize |-> -1, flushInterval |-> 0, numWorkers |-> 2],
    [bulkActions |-> 1,  bulkSize |-> -1, flushInterval |-> 0, numWorkers |-> 2],
    [bulkActions |-> -1, bulkSize |-> 3,  flushInterval |-> 1, numWorkers |-> 0],
    [bulkActions |-> -1, bulkSize |-> -1, flushInterval |-> 0, numWorkers |-> 2],
    [bulkActions |-> 0,  bulkSize |-> 0,  flushInterval |-> 0, numWorkers |-> 1] }

VARIABLES
  \* BulkProcessor fields
  bulkActions, bulkSize, flushInterval, numWorkers,
  started, startedMu, rowsGen, rowsOpen, stopReconnC, flusherStopC,
  workers, workerWg,
  \* bulkWorker goroutines and their BulkService
  wpc, svc, wcause, wtry, werr, flushCClosed, flushAckCClosed,
  \* callers and the flusher goroutine
  pc, op, ret, arg, fws, fidx,
  crashed,
  \* history
  nstarts, submitted, log, fails, emptyErr, dirty, residual, flushBy, ferr,
  facc, fack, recv, ncalls

procVars == <<pc, op, ret, arg, fws, fidx>>
workerVars == <<wpc, svc, wcause, wtry, werr, flushCClosed, flushAckCClosed>>
cfgVars == <<bulkActions, bulkSize, flushInterval>>
lifeVars == <<numWorkers, started, startedMu, rowsGen, rowsOpen, stopReconnC,
              flusherStopC, workers, workerWg, nstarts>>
histVars == <<submitted, log, fails, emptyErr, dirty, residual, flushBy, ferr,
              facc, fack, recv>>
\* histVars without what belongs to one Flush call.
histRest == <<submitted, log, fails, emptyErr, residual, flushBy, recv>>
vars == <<cfgVars, lifeVars, workerVars, procVars, crashed, histVars, ncalls>>

\* ------------------------------------------------------------ BulkService
Range(s) == {s[i] : i \in DOMAIN s}

estimateSizeInBytes(r) == Len(r)

RECURSIVE SumLen(_, _)
\* The loop of EstimatedSizeInBytes over rows[cursor:].
SumLen(rows, from) ==
  IF from > Len(rows) THEN 0
  ELSE estimateSizeInBytes(rows[from]) + SumLen(rows, from + 1)

NewBulkService == [rows |-> <<>>, sizeInBytes |-> 0, sizeInBytesCursor |-> 0]

NumberOfRows(s) == Len(s.rows)

\* EstimatedSizeInBytes that adds the rows after the cursor but leaves the
\* cursor where it was.
EstimatedSizeKeepCursor(s) ==
  IF s.sizeInBytesCursor = Len(s.rows) THEN s
  ELSE [s EXCEPT !.sizeInBytes = s.sizeInBytes + SumLen(s.rows, s.sizeInBytesCursor + 1)]

\* EstimatedSizeInBytes, as the service it leaves behind; the value it
\* returns is that service's sizeInBytes.
EstimatedSizeInBytes(s) ==
  IF s.sizeInBytesCursor = Len(s.rows) THEN s
  ELSE [s EXCEPT !.sizeInBytes = s.sizeInBytes + SumLen(s.rows, s.sizeInBytesCursor + 1),
                 !.sizeInBytesCursor = Len(s.rows)]

\* Reset that clears the size but leaves the rows.
ResetKeepRows(s) == [s EXCEPT !.sizeInBytes = 0, !.sizeInBytesCursor = 0]

Reset(s) == [s EXCEPT !.rows = <<>>, !.sizeInBytes = 0, !.sizeInBytesCursor = 0]

ServiceAdd(s, row) == [s EXCEPT !.rows = Append(s.rows, row)]

RECURSIVE bodyAsString(_)
\* Every row followed by a newline byte.
bodyAsString(rows) ==
  IF rows = <<>> THEN <<>>
  ELSE Head(rows) \o <<NL>> \o bodyAsString(Tail(rows))

RECURSIVE SplitLines(_, _)
\* The rows the store reads from a body: the lines that end in NL.
SplitLines(body, cur) ==
  IF body = <<>> THEN <<>>
  ELSE IF Head(body) = NL THEN <<cur>> \o SplitLines(Tail(body), <<>>)
  ELSE SplitLines(Tail(body), Append(cur, Head(body)))

\* Do, always resetting the service (the mutation of Do).
DoResetAlways(s, res) ==
  IF NumberOfRows(s) = 0
  THEN [s |-> s, err |-> "norows", sent |-> FALSE, body |-> <<>>]
  ELSE [s |-> Reset(s), err |-> IF res = "ok" THEN "nil" ELSE "transport",
        sent |-> TRUE, body |-> bodyAsString(s.rows)]

\* BulkService.Do with the transport answering res ("ok" or "err"): the
\* service afterwards, the error returned, whether a request was sent and
\* its body.
Do(s, res) ==
  IF NumberOfRows(s) = 0
  THEN [s |-> s, err |-> "norows", sent |-> FALSE, body |-> <<>>]
  ELSE LET s1 == EstimatedSizeInBytes(s) IN
       IF res = "ok"
       THEN [s |-> Reset(s1), err |-> "nil", sent |-> TRUE, body |-> bodyAsString(s.rows)]
       ELSE [s |-> s1, err |-> "transport", sent |-> TRUE, body |-> bodyAsString(s.rows)]

\* ------------------------------------------------------------- bulkWorker
\* commitRequired with the count test strict: a commit is due only when the
\* batch holds more rows than bulkActions.
commitRequiredStrict(s, actions, size) ==
  IF actions >= 0 /\ NumberOfRows(s) > actions
  THEN [req |-> TRUE, s |-> s]
  ELSE IF size >= 0
       THEN LET s1 == EstimatedSizeInBytes(s) IN
            [req |-> s1.sizeInBytes >= size, s |-> s1]
       ELSE [req |-> FALSE, s |-> s]

\* commitRequired without the byte-size test.
commitRequiredCountOnly(s, actions, size) ==
  [req |-> actions >= 0 /\ NumberOfRows(s) >= actions, s |-> s]

\* commitRequired: whether a commit is due, and the service afterwards
\* (EstimatedSizeInBytes is only called when the count test did not decide).
commitRequired(s, actions, size) ==
  IF actions >= 0 /\ NumberOfRows(s) >= actions
  THEN [req |-> TRUE, s |-> s]
  ELSE IF size >= 0
       THEN LET s1 == EstimatedSizeInBytes(s) IN
            [req |-> s1.sizeInBytes >= size, s |-> s1]
       ELSE [req |-> FALSE, s |-> s]

\* A worker that also receives while it is sending its acknowledgment.
RecvReadyOrAcking(w) == wpc[w] \in {"select", "ack"}

\* A worker that also receives while it is inside commit.
RecvReadyOrCommitting(w) == wpc[w] \in {"select", "commit"}

\* The worker is in its select statement, ready to receive.
RecvReady(w) == wpc[w] = "select"

\* The guard dropped: the branch always commits.
HasRowsAlways(s) == TRUE

\* The guard stuck: the branch never commits.
HasRowsNever(s) == FALSE

\* The guard of the flush and close branches before commit.
HasRows(s) == NumberOfRows(s) > 0

\* A flush branch that goes back to the select without acknowledging.
AfterCommitNoAck(cause) ==
  CASE cause = "threshold" -> "select"
    [] cause = "flush" -> "select"
    [] cause = "close" -> "deferDone"

\* Where the work loop goes when commit returns, by the branch that called it.
AfterCommit(cause) ==
  CASE cause = "threshold" -> "select"
    [] cause = "flush" -> "ack"
    [] cause = "close" -> "deferDone"

\* What a caller-visible hook is handed of worker w's commit error: the
\* bodies of notifyFunc, of `if err != nil` in commit and of `if err != nil`
\* in work are empty, and the processor has no hook to register.
FailureReported(w) == FALSE

\* RetryNotify gives up when the backoff schedule is exhausted.
BackoffExhausted(try) == try >= MaxAttempts

\* ------------------------------------------------------------------- Init
NoArg == [row |-> <<>>, ch |-> 0]

\* The processor NewBulkProcessor returns for configuration c.
InitWith(c) ==
  /\ bulkActions = c.bulkActions
  /\ bulkSize = c.bulkSize
  /\ flushInterval = c.flushInterval
  /\ numWorkers = c.numWorkers
  /\ started = FALSE
  /\ startedMu = "free"
  /\ rowsGen = 0
  /\ rowsOpen = FALSE
  /\ stopReconnC = "nil"
  /\ flusherStopC = "nil"
  /\ workers = <<>>
  /\ workerWg = 0
  /\ wpc = [w \in WorkerIds |-> "none"]
  /\ svc = [w \in WorkerIds |-> NewBulkService]
  /\ wcause = [w \in WorkerIds |-> "none"]
  /\ wtry = [w \in WorkerIds |-> 0]
  /\ werr = [w \in WorkerIds |-> "nil"]
  /\ flushCClosed = [w \in WorkerIds |-> FALSE]
  /\ flushAckCClosed = [w \in WorkerIds |-> FALSE]
  /\ pc = [p \in Procs |-> IF p = Flusher THEN "none" ELSE "idle"]
  /\ op = [p \in Procs |-> "none"]
  /\ ret = [p \in Procs |-> "none"]
  /\ arg = [p \in Procs |-> NoArg]
  /\ fws = [p \in Procs |-> <<>>]
  /\ fidx = [p \in Procs |-> 1]
  /\ crashed = FALSE
  /\ nstarts = 0
  /\ submitted = <<>>
  /\ log = [w \in WorkerIds |-> <<>>]
  /\ fails = 0
  /\ emptyErr = FALSE
  /\ dirty = [p \in Procs |-> FALSE]
  /\ residual = [w \in WorkerIds |-> <<>>]
  /\ flushBy = [w \in WorkerIds |-> "none"]
  /\ ferr = [p \in Procs |-> FALSE]
  /\ facc = [p \in Procs |-> <<>>]
  /\ fack = [p \in Procs |-> <<>>]
  /\ recv = [w \in WorkerIds |-> <<>>]
  /\ ncalls = 0

Init == \E c \in Configs : InitWith(c)

\* ------------------------------------------------------- Start and Close
\* checkInterval: the configuration error of Start.
checkInterval ==
  IF bulkActions = 0 /\ bulkSize = 0 /\ flushInterval = 0 THEN "err" ELSE "nil"

\* Start without its test of started.
AlreadyStartedNever == FALSE

\* Start's test for a processor that already runs.
AlreadyStarted == started

\* Close's test for a processor that does not run.
AlreadyStopped == ~started

\* Start that takes the configured worker count as it is.
PoolSizeAsGiven(n) == n

\* Start forces the worker count to at least 1.
PoolSize(n) == IF n < 1 THEN 1 ELSE n

\* Close that never stops the flusher.
HasFlusherNever == FALSE

\* Close's test for a running flusher: p.flusherStopC != nil.
HasFlusher == flusherStopC # "nil"

\* A client begins a call: one more of the run's calls.
ClientCall == ncalls < MaxCalls /\ ncalls' = ncalls + 1

\* A caller that begins another call (or the flusher that returns) leaves
\* nothing of its last Flush: the loop's locals and what was recorded of it.
FlushForget(p) ==
  /\ fws' = [fws EXCEPT ![p] = <<>>]
  /\ fidx' = [fidx EXCEPT ![p] = 1]
  /\ dirty' = [dirty EXCEPT ![p] = FALSE]
  /\ ferr' = [ferr EXCEPT ![p] = FALSE]
  /\ facc' = [facc EXCEPT ![p] = <<>>]
  /\ fack' = [fack EXCEPT ![p] = <<>>]

\* The caller holds no call open and the start/stop lock is free.
CanLock(c) == pc[c] = "idle" /\ startedMu = "free" /\ ~crashed

\* Start with a configuration checkInterval rejects.
StartReject(c) ==
  /\ CanLock(c)
  /\ checkInterval = "err"
  /\ op' = [op EXCEPT ![c] = "Start"]
  /\ ret' = [ret EXCEPT ![c] = "err"]
  /\ UNCHANGED <<cfgVars, lifeVars, workerVars, pc, arg, crashed, histRest>>
  /\ FlushForget(c)
  /\ ClientCall

\* Start on a started processor.
StartNoop(c) ==
  /\ CanLock(c)
  /\ checkInterval = "nil"
  /\ AlreadyStarted
  /\ op' = [op EXCEPT ![c] = "Start"]
  /\ ret' = [ret EXCEPT ![c] = "nil"]
  /\ UNCHANGED <<cfgVars, lifeVars, workerVars, pc, arg, crashed, histRest>>
  /\ FlushForget(c)
  /\ ClientCall

\* Start that allocates the intake channel and spawns the workers and,
\* with a flush interval, the flusher.
StartSpawn(c) ==
  /\ CanLock(c)
  /\ checkInterval = "nil"
  /\ ~AlreadyStarted
  /\ nstarts < MaxStarts
  /\ LET n == PoolSize(numWorkers)
         base == nstarts * MaxPool
         new == (base + 1) .. (base + n)
     IN /\ n <= MaxPool
        /\ numWorkers' = n
        /\ workers' = [i \in 1 .. n |-> base + i]
        /\ workerWg' = workerWg + n
        /\ wpc' = [w \in WorkerIds |-> IF w \in new THEN "select" ELSE wpc[w]]
  /\ rowsGen' = rowsGen + 1
  /\ rowsOpen' = TRUE
  /\ stopReconnC' = "open"
  /\ flusherStopC' = IF flushInterval > 0 THEN "open" ELSE flusherStopC
  /\ pc' = [pc EXCEPT ![Flusher] = IF flushInterval > 0 THEN "select" ELSE @]
  /\ started' = TRUE
  /\ nstarts' = nstarts + 1
  /\ op' = [op EXCEPT ![c] = "Start"]
  /\ ret' = [ret EXCEPT ![c] = "nil"]
  /\ UNCHANGED <<cfgVars, startedMu, svc, wcause, wtry, werr, flushCClosed,
                 flushAckCClosed, arg, crashed, histRest>>
  /\ FlushForget(c)
  /\ ClientCall

\* Close (or Stop) on a processor that is not started.
CloseNoop(c) ==
  /\ CanLock(c)
  /\ AlreadyStopped
  /\ op' = [op EXCEPT ![c] = "Close"]
  /\ ret' = [ret EXCEPT ![c] = "nil"]
  /\ UNCHANGED <<cfgVars, lifeVars, workerVars, pc, arg, crashed, histRest>>
  /\ FlushForget(c)
  /\ ClientCall

\* Close takes the lock and closes stopReconnC.
CloseBegin(c) ==
  /\ CanLock(c)
  /\ ~AlreadyStopped
  /\ startedMu' = c
  /\ stopReconnC' = "nil"
  /\ pc' = [pc EXCEPT ![c] = IF HasFlusher THEN "closeStopSend" ELSE "closeRows"]
  /\ op' = [op EXCEPT ![c] = "Close"]
  /\ ret' = [ret EXCEPT ![c] = "none"]
  /\ UNCHANGED <<cfgVars, numWorkers, started, rowsGen, rowsOpen, flusherStopC,
                 workers, workerWg, nstarts, workerVars, arg, crashed, histRest>>
  /\ FlushForget(c)
  /\ ClientCall

\* p.flusherStopC <- struct{}{} meets the flusher's select.
CloseStopSend(c) ==
  /\ ~crashed
  /\ pc[c] = "closeStopSend"
  /\ pc[Flusher] = "select"
  /\ pc' = [pc EXCEPT ![c] = "closeStopRecv", ![Flusher] = "stopAck"]
  /\ UNCHANGED <<cfgVars, lifeVars, workerVars, op, ret, arg, fws, fidx, crashed, histVars>>
  /\ UNCHANGED ncalls

\* <-p.flusherStopC meets the flusher's acknowledgment; the flusher returns
\* and Close closes and drops the channel.
CloseStopRecv(c) ==
  /\ ~crashed
  /\ pc[c] = "closeStopRecv"
  /\ pc[Flusher] = "stopAck"
  /\ pc' = [pc EXCEPT ![c] = "closeRows", ![Flusher] = "none"]
  /\ flusherStopC' = "nil"
  /\ op' = [op EXCEPT ![Flusher] = "none"]
  /\ ret' = [ret EXCEPT ![Flusher] = "none"]
  /\ FlushForget(Flusher)
  /\ UNCHANGED <<cfgVars, numWorkers, started, startedMu, rowsGen, rowsOpen, stopReconnC,
                 workers, workerWg, nstarts, workerVars, arg, crashed, histRest>>
  /\ UNCHANGED ncalls

\* close(p.rows)
CloseRows(c) ==
  /\ ~crashed
  /\ pc[c] = "closeRows"
  /\ rowsOpen' = FALSE
  /\ pc' = [pc EXCEPT ![c] = "closeWait"]
  /\ UNCHANGED <<cfgVars, numWorkers, started, startedMu, rowsGen, stopReconnC,
                 flusherStopC, workers, workerWg, nstarts, workerVars, op, ret, arg,
                 fws, fidx, crashed, histVars>>
  /\ UNCHANGED ncalls

\* Close that does not wait for the workers.
WgZeroNoWait == TRUE

\* workerWg.Wait() returns when the counter is zero.
WgZero == workerWg = 0

\* p.workerWg.Wait() returns; Close clears started and releases the lock.
CloseWait(c) ==
  /\ ~crashed
  /\ pc[c] = "closeWait"
  /\ WgZero
  /\ started' = FALSE
  /\ startedMu' = "free"
  /\ pc' = [pc EXCEPT ![c] = "idle"]
  /\ ret' = [ret EXCEPT ![c] = "nil"]
  /\ UNCHANGED <<cfgVars, numWorkers, rowsGen, rowsOpen, stopReconnC, flusherStopC,
                 workers, workerWg, nstarts, workerVars, op, arg, fws, fidx,
                 crashed, histVars>>
  /\ UNCHANGED ncalls

\* -------------------------------------------------------------------- Add
\* Add calls not yet accepted by a worker.
Sending == {c \in Clients : pc[c] = "addSend"}

\* Add evaluates p.rows and starts its send.
AddBegin(c, r) ==
  /\ ~crashed
  /\ pc[c] = "idle"
  /\ pc' = [pc EXCEPT ![c] = "addSend"]
  /\ arg' = [arg EXCEPT ![c] = [row |-> r, ch |-> rowsGen]]
  /\ op' = [op EXCEPT ![c] = "Add"]
  /\ ret' = [ret EXCEPT ![c] = "none"]
  /\ UNCHANGED <<cfgVars, lifeVars, workerVars, crashed, histRest>>
  /\ FlushForget(c)

\* An Add call, one of the run's calls.
AddCall(c, r) ==
  /\ Len(submitted) + Cardinality(Sending) < MaxAdds
  /\ AddBegin(c, r)
  /\ ClientCall

\* The send of Add meets the receive of worker w's select: the worker adds
\* the row to its service and commits if commitRequired.
AddDeliver(c, w) ==
  /\ ~crashed
  /\ pc[c] = "addSend"
  /\ arg[c].ch = rowsGen
  /\ rowsOpen
  /\ w \in Range(workers)
  /\ RecvReady(w)
  /\ LET cr == commitRequired(ServiceAdd(svc[w], arg[c].row), bulkActions, bulkSize)
     IN /\ svc' = [svc EXCEPT ![w] = cr.s]
        /\ wpc' = [wpc EXCEPT ![w] = IF cr.req THEN "commit" ELSE "select"]
        /\ wcause' = [wcause EXCEPT ![w] = IF cr.req THEN "threshold" ELSE @]
  /\ wtry' = [wtry EXCEPT ![w] = 0]
  /\ werr' = [werr EXCEPT ![w] = "nil"]
  /\ pc' = [pc EXCEPT ![c] = "idle"]
  /\ ret' = [ret EXCEPT ![c] = "done"]
  /\ arg' = [arg EXCEPT ![c] = NoArg]
  /\ submitted' = Append(submitted, arg[c].row)
  /\ recv' = [recv EXCEPT ![w] = Append(@, arg[c].row)]
  /\ dirty' = [p \in Procs |-> dirty[p] \/ op[p] = "Flush"]
  /\ UNCHANGED <<cfgVars, lifeVars, flushCClosed, flushAckCClosed, op, fws, fidx,
                 crashed, log, fails, emptyErr, residual, flushBy, ferr, facc, fack>>
  /\ UNCHANGED ncalls

\* A send on a closed intake channel panics.
AddPanic(c) ==
  /\ ~crashed
  /\ pc[c] = "addSend"
  /\ arg[c].ch # 0
  /\ (arg[c].ch < rowsGen \/ ~rowsOpen)
  /\ crashed' = TRUE
  /\ UNCHANGED <<cfgVars, lifeVars, workerVars, procVars, histVars>>
  /\ UNCHANGED ncalls

\* ------------------------------------------------------------------ Flush
\* The worker the Flush loop of p is at.
Cur(p) == fws[p][fidx[p]]

\* Where a caller is outside a call: the flusher in its select, a client idle.
Rest(p) == IF p = Flusher THEN "select" ELSE "idle"

\* Flush that sends the next request without waiting for the acknowledgment.
FlushAfterSendNoWait(p) ==
  IF fidx[p] < Len(fws[p]) THEN [pc |-> "flushSend", idx |-> fidx[p] + 1]
  ELSE [pc |-> "flushWait", idx |-> fidx[p]]

\* After w.flushC <- struct{}{} the loop waits on w.flushAckC.
FlushAfterSend(p) == [pc |-> "flushWait", idx |-> fidx[p]]

\* Flush (by a client, or by the flusher on a tick) ranges over p.workers.
FlushCall(p) ==
  /\ ~crashed
  /\ pc[p] = Rest(p)
  /\ fws' = [fws EXCEPT ![p] = workers]
  /\ fidx' = [fidx EXCEPT ![p] = 1]
  /\ op' = [op EXCEPT ![p] = "Flush"]
  /\ pc' = [pc EXCEPT ![p] = IF workers = <<>> THEN Rest(p) ELSE "flushSend"]
  /\ ret' = [ret EXCEPT ![p] = IF workers = <<>> THEN "nil" ELSE "none"]
  /\ dirty' = [dirty EXCEPT ![p] = FALSE]
  /\ ferr' = [ferr EXCEPT ![p] = FALSE]
  /\ facc' = [facc EXCEPT ![p] = <<>>]
  /\ fack' = [fack EXCEPT ![p] = <<>>]
  /\ UNCHANGED <<cfgVars, lifeVars, workerVars, arg, crashed, submitted, log, fails,
                 emptyErr, residual, flushBy, recv>>
  /\ IF p = Flusher THEN UNCHANGED ncalls ELSE ClientCall

\* w.flushC <- struct{}{} meets the flush branch of the worker's select: the
\* worker commits if it has rows, else goes on to acknowledge.
FlushSend(p) ==
  /\ ~crashed
  /\ pc[p] = "flushSend"
  /\ RecvReady(Cur(p))
  /\ ~flushCClosed[Cur(p)]
  /\ LET w == Cur(p) IN
       /\ wpc' = [wpc EXCEPT ![w] = IF HasRows(svc[w]) THEN "commit" ELSE "ack"]
       /\ wcause' = [wcause EXCEPT ![w] = "flush"]
       /\ wtry' = [wtry EXCEPT ![w] = 0]
       /\ werr' = [werr EXCEPT ![w] = "nil"]
       /\ flushBy' = [flushBy EXCEPT ![w] = p]
       /\ facc' = [facc EXCEPT ![p] = Append(@, w)]
  /\ pc' = [pc EXCEPT ![p] = FlushAfterSend(p).pc]
  /\ fidx' = [fidx EXCEPT ![p] = FlushAfterSend(p).idx]
  /\ UNCHANGED <<cfgVars, lifeVars, svc, flushCClosed, flushAckCClosed, op, ret, arg,
                 fws, crashed, submitted, log, fails, emptyErr, dirty, residual, ferr, fack,
                 recv>>
  /\ UNCHANGED ncalls

\* A send on a closed flush-request channel panics.
FlushPanic(p) ==
  /\ ~crashed
  /\ pc[p] = "flushSend"
  /\ flushCClosed[Cur(p)]
  /\ crashed' = TRUE
  /\ UNCHANGED <<cfgVars, lifeVars, workerVars, procVars, histVars>>
  /\ UNCHANGED ncalls

\* <-w.flushAckC meets the worker's acknowledgment (a closed channel would
\* deliver at once); the loop moves to the next worker or Flush returns nil.
FlushRecvAck(p) ==
  /\ ~crashed
  /\ pc[p] = "flushWait"
  /\ LET w == Cur(p)
         last == fidx[p] >= Len(fws[p])
     IN /\ IF wpc[w] = "ack"
           THEN /\ wpc' = [wpc EXCEPT ![w] = "select"]
                /\ flushBy' = [flushBy EXCEPT ![w] = "none"]
           ELSE /\ flushAckCClosed[w]
                /\ UNCHANGED <<wpc, flushBy>>
        /\ fack' = [fack EXCEPT ![p] = Append(@, w)]
        /\ pc' = [pc EXCEPT ![p] = IF last THEN Rest(p) ELSE "flushSend"]
        /\ fidx' = [fidx EXCEPT ![p] = IF last THEN @ ELSE @ + 1]
        /\ ret' = [ret EXCEPT ![p] = IF last THEN "nil" ELSE @]
  /\ UNCHANGED <<cfgVars, lifeVars, svc, wcause, wtry, werr, flushCClosed,
                 flushAckCClosed, op, arg, fws, crashed, submitted, log, fails,
                 emptyErr, dirty, residual, ferr, facc, recv>>
  /\ UNCHANGED ncalls

\* ------------------------------------------------------------ worker loop
\* The intake branch of the select finds the channel closed: stop, with a
\* final commit if the service has rows.
WorkerSeeClosed(w) ==
  /\ ~crashed
  /\ RecvReady(w)
  /\ w \in Range(workers)
  /\ ~rowsOpen
  /\ wpc' = [wpc EXCEPT ![w] = IF HasRows(svc[w]) THEN "commit" ELSE "deferDone"]
  /\ wcause' = [wcause EXCEPT ![w] = "close"]
  /\ wtry' = [wtry EXCEPT ![w] = 0]
  /\ werr' = [werr EXCEPT ![w] = "nil"]
  /\ residual' = [residual EXCEPT ![w] = svc[w].rows]
  /\ UNCHANGED <<cfgVars, lifeVars, svc, flushCClosed, flushAckCClosed, procVars,
                 crashed, submitted, log, fails, emptyErr, dirty, flushBy, ferr, facc, fack,
                 recv>>
  /\ UNCHANGED ncalls

\* One attempt of commit: commitFunc calls Do; on an error RetryNotify
\* notifies and retries until the backoff is exhausted, then commit returns
\* the error to the work loop, which drops it.
CommitAttempt(w, res) ==
  /\ ~crashed
  /\ wpc[w] = "commit"
  /\ LET d == Do(svc[w], res)
         gaveUp == d.err # "nil" /\ BackoffExhausted(wtry[w] + 1)
         returns == d.err = "nil" \/ gaveUp
     IN /\ svc' = [svc EXCEPT ![w] = d.s]
        /\ log' = [log EXCEPT ![w] =
                     IF d.sent
                     THEN Append(@, [body |-> d.body, ok |-> d.err = "nil",
                                     cause |-> wcause[w]])
                     ELSE @]
        /\ emptyErr' = (emptyErr \/ d.err = "norows")
        /\ wtry' = [wtry EXCEPT ![w] = IF returns THEN 0 ELSE @ + 1]
        /\ werr' = [werr EXCEPT ![w] = IF returns THEN d.err ELSE @]
        /\ wpc' = [wpc EXCEPT ![w] = IF returns THEN AfterCommit(wcause[w]) ELSE @]
        /\ ferr' = IF gaveUp /\ wcause[w] = "flush" /\ flushBy[w] \in Procs
                   THEN [ferr EXCEPT ![flushBy[w]] = TRUE]
                   ELSE ferr
  /\ UNCHANGED <<cfgVars, lifeVars, wcause, flushCClosed, flushAckCClosed, procVars,
                 crashed, submitted, dirty, residual, flushBy, facc, fack, recv>>
  /\ UNCHANGED ncalls

\* A commit attempt the transport accepts.
WorkerCommitOk(w) ==
  /\ CommitAttempt(w, "ok")
  /\ UNCHANGED fails

\* A commit attempt the transport (or the decoder) fails.
WorkerCommitFail(w) ==
  /\ fails < MaxFails
  /\ CommitAttempt(w, "err")
  /\ fails' = fails + 1

\* The deferred function: workerWg.Done()
WorkerDone(w) ==
  /\ ~crashed
  /\ wpc[w] = "deferDone"
  /\ workerWg' = workerWg - 1
  /\ wpc' = [wpc EXCEPT ![w] = "deferClose"]
  /\ UNCHANGED <<cfgVars, numWorkers, started, startedMu, rowsGen, rowsOpen, stopReconnC,
                 flusherStopC, workers, nstarts, svc, wcause, wtry, werr, flushCClosed,
                 flushAckCClosed, procVars, crashed, histVars>>
  /\ UNCHANGED ncalls

\* The deferred function: close(w.flushAckC) and close(w.flushC); the
\* goroutine ends.  (No receiver can be waiting on w.flushAckC: a Flush
\* waits there only between the worker's accept and its acknowledgment.)
WorkerCloseChans(w) ==
  /\ ~crashed
  /\ wpc[w] = "deferClose"
  /\ flushAckCClosed' = [flushAckCClosed EXCEPT ![w] = TRUE]
  /\ flushCClosed' = [flushCClosed EXCEPT ![w] = TRUE]
  /\ wpc' = [wpc EXCEPT ![w] = "done"]
  /\ wcause' = [wcause EXCEPT ![w] = "none"]
  /\ werr' = [werr EXCEPT ![w] = "nil"]
  /\ UNCHANGED <<cfgVars, lifeVars, svc, wtry, procVars, crashed, histVars>>
  /\ UNCHANGED ncalls

\* ------------------------------------------------------------------- Spec
Next ==
  \/ \E c \in Clients : StartReject(c)
  \/ \E c \in Clients : StartNoop(c)
  \/ \E c \in Clients : StartSpawn(c)
  \/ \E c \in Clients : CloseNoop(c)
  \/ \E c \in Clients : CloseBegin(c)
  \/ \E c \in Clients : CloseStopSend(c)
  \/ \E c \in Clients : CloseStopRecv(c)
  \/ \E c \in Clients : CloseRows(c)
  \/ \E c \in Clients : CloseWait(c)
  \/ \E c \in Clients, r \in Records : AddCall(c, r)
  \/ \E c \in Clients, w \in WorkerIds : AddDeliver(c, w)
  \/ \E c \in Clients : AddPanic(c)
  \/ \E p \in Procs : FlushCall(p)
  \/ \E p \in Procs : FlushSend(p)
  \/ \E p \in Procs : FlushPanic(p)
  \/ \E p \in Procs : FlushRecvAck(p)
  \/ \E w \in WorkerIds : WorkerSeeClosed(w)
  \/ \E w \in WorkerIds : WorkerCommitOk(w)
  \/ \E w \in WorkerIds : WorkerCommitFail(w)
  \/ \E w \in WorkerIds : WorkerDone(w)
  \/ \E w \in WorkerIds : WorkerCloseChans(w)

Spec == Init /\ [][Next]_vars

\* Every goroutine that can take a step is scheduled: a worker's loop, commit
\* attempts and deferred calls, the steps of a Flush and of Close.  The
\* flusher's select takes a pending stop request although ticks keep coming.
WorkerStep(w) ==
  \/ WorkerSeeClosed(w)
  \/ WorkerCommitOk(w)
  \/ WorkerCommitFail(w)
  \/ WorkerDone(w)
  \/ WorkerCloseChans(w)

FlushStep(p) == FlushSend(p) \/ FlushRecvAck(p)

CloseStep(c) == CloseStopRecv(c) \/ CloseRows(c) \/ CloseWait(c)

Fairness ==
  /\ \A w \in WorkerIds : WF_vars(WorkerStep(w))
  /\ \A p \in Procs : WF_vars(FlushStep(p))
  /\ \A c \in Clients : WF_vars(CloseStep(c)) /\ SF_vars(CloseStopSend(c))

\* The same program with the clients' calls bounded by FairCalls.
FairSpec == Init /\ [][Next /\ ncalls' <= FairCalls]_vars /\ Fairness

\* A sender blocked on an unbuffered channel waits in the channel's queue in
\* arrival order: a Flush whose request the worker can take again and again
\* (each time the worker is back in its select) gets it taken, although
\* other Flush calls, the flusher's on every tick, send to the same worker.
SendFairness == \A p \in Procs : SF_vars(FlushSend(p))

\* FairSpec with the senders of flush requests served in turn.
FairSendSpec ==
  Init /\ [][Next /\ ncalls' <= FairCalls]_vars /\ Fairness /\ SendFairness

\* ---------------------------------------------------------------- scenario
\* Two workers, max count 3, no byte threshold, no flush interval; one caller
\* starts the processor, submits ScenarioRecords records one after the other
\* and then calls Flush once; the store accepts every commit.
ScenarioConfig ==
  [bulkActions |-> 3, bulkSize |-> -1, flushInterval |-> 0, numWorkers |-> 2]

ScenarioCaller == "c1"

ScenarioInit == InitWith(ScenarioConfig)

\* The caller's next Add.
ScenarioAdd(r) ==
  /\ started
  /\ Len(submitted) < ScenarioRecords
  /\ AddBegin(ScenarioCaller, r)
  /\ UNCHANGED ncalls

\* The caller's Flush, after its last Add returned.
ScenarioFlush ==
  /\ Len(submitted) = ScenarioRecords
  /\ op[ScenarioCaller] = "Add"
  /\ FlushCall(ScenarioCaller)

ScenarioNext ==
  \/ StartSpawn(ScenarioCaller)
  \/ ScenarioAdd(<<1>>)
  \/ \E w \in WorkerIds : AddDeliver(ScenarioCaller, w)
  \/ \E w \in WorkerIds : WorkerCommitOk(w)
  \/ ScenarioFlush
  \/ FlushSend(ScenarioCaller)
  \/ FlushRecvAck(ScenarioCaller)

ScenarioSpec == ScenarioInit /\ [][ScenarioNext]_vars

\* ---------------------------------------------------- a service on its own
\* One BulkService (that of the first worker id) called directly, in any
\* order: Add, EstimatedSizeInBytes, Reset, and Do with either outcome.
ServiceApply(s) ==
  /\ svc' = [svc EXCEPT ![1] = s]
  /\ UNCHANGED <<cfgVars, lifeVars, wpc, wcause, wtry, werr, flushCClosed,
                 flushAckCClosed, procVars, crashed, histVars, ncalls>>

ServiceCallAdd(r) ==
  /\ NumberOfRows(svc[1]) < MaxRows
  /\ ServiceApply(ServiceAdd(svc[1], r))

ServiceCallEstimate == ServiceApply(EstimatedSizeInBytes(svc[1]))

ServiceCallReset == ServiceApply(Reset(svc[1]))

ServiceCallDo(res) == ServiceApply(Do(svc[1], res).s)

ServiceNext ==
  \/ \E r \in Records : ServiceCallAdd(r)
  \/ ServiceCallEstimate
  \/ ServiceCallReset
  \/ \E res \in {"ok", "err"} : ServiceCallDo(res)

ServiceSpec == Init /\ [][ServiceNext]_vars

\* ------------------------------------------------------------ observations
\* p's last call was o and has returned.
Returned(p, o) == pc[p] = Rest(p) /\ op[p] = o /\ ret[p] # "none"

\* Worker w's commit call returns in this step.
CommitReturns(w) == wpc[w] = "commit" /\ wpc'[w] # "commit"

IsPrefix(s, t) == Len(s) <= Len(t) /\ \A i \in 1 .. Len(s) : s[i] = t[i]

C2_FlushReturnsAfterAllAcked ==
  \A p \in Procs :
    Returned(p, "Flush") =>
      /\ facc[p] = fws[p]
      /\ fack[p] = fws[p]
      /\ (~dirty[p] /\ ~ferr[p]) => \A i \in DOMAIN fws[p] : svc[fws[p][i]].rows = <<>>

\* A client's Flush over a pool of two has returned after a flush-triggered
\* commit, with no Add since.
C2_Witness ==
  \E p \in Clients :
    /\ Returned(p, "Flush")
    /\ Len(fws[p]) = 2
    /\ ~dirty[p] /\ ~ferr[p]
    /\ \E w \in Range(fws[p]) : \E i \in DOMAIN log[w] :
         log[w][i].cause = "flush" /\ log[w][i].ok

\* C3: within one Flush call the requests are accepted in pool order, the
\* next one only after the previous worker has acknowledged, so at most one
\* worker is processing a request of that call.
C3_FlushOneWorkerAtATime ==
  \A p \in Procs :
    /\ IsPrefix(facc[p], fws[p])
    /\ IsPrefix(fack[p], facc[p])
    /\ Len(facc[p]) - Len(fack[p]) <= 1
    /\ Cardinality({w \in WorkerIds : flushBy[w] = p}) <= 1
    /\ \A w \in WorkerIds : flushBy[w] = p => (pc[p] = "flushWait" /\ Cur(p) = w)

\* The second worker of the pool is processing the request of a Flush whose
\* first worker has acknowledged.
C3_Witness ==
  \E p \in Procs :
    /\ Len(fws[p]) = 2
    /\ Len(fack[p]) = 1
    /\ flushBy[fws[p][2]] = p

\* C4 (as stated): a Flush during which a worker's commit failed returns a
\* non-nil error.
C4_FlushReturnsFirstFailure ==
  \A p \in Clients :
    (Returned(p, "Flush") /\ ferr[p]) => ret[p] # "nil"

\* C5: a worker is never inside commit with an empty batch, no request with
\* an empty body is sent, and Do never produces its no-rows error.
C5_NoEmptyCommit ==
  /\ emptyErr = FALSE
  /\ \A w \in WorkerIds :
       /\ wpc[w] = "commit" => svc[w].rows # <<>>
       /\ \A i \in DOMAIN log[w] : log[w][i].body # <<>>

\* A Flush over a pool of idle workers has returned and no commit was ever
\* attempted.
C5_Witness ==
  \E p \in Clients :
    /\ Returned(p, "Flush")
    /\ fws[p] # <<>>
    /\ \A w \in WorkerIds : log[w] = <<>>
    /\ ~emptyErr

\* Worker w has left its loop and signalled workerWg.Done().
Terminated(w) == wpc[w] \in {"deferClose", "done"}

\* Close has returned, or Start never ran.
Stopped == ~started /\ startedMu = "free"

InClose(c) == pc[c] \in {"closeStopSend", "closeStopRecv", "closeRows", "closeWait"}

Occ(s, x) == Cardinality({i \in DOMAIN s : s[i] = x})

RECURSIVE CommittedRows(_)
\* The rows of the bodies of the commits that succeeded, from a worker's log.
CommittedRows(l) ==
  IF l = <<>> THEN <<>>
  ELSE (IF Head(l).ok THEN SplitLines(Head(l).body, <<>>) ELSE <<>>)
       \o CommittedRows(Tail(l))

RECURSIVE SumOcc(_, _, _)
\* Occurrences of row x in f[w], summed over the workers ws.
SumOcc(f, ws, x) ==
  IF ws = {} THEN 0
  ELSE LET w == CHOOSE v \in ws : TRUE
       IN Occ(f[w], x) + SumOcc(f, ws \ {w}, x)

Committed == [w \in WorkerIds |-> CommittedRows(log[w])]
Batches == [w \in WorkerIds |-> svc[w].rows]

\* A client's Flush has returned with no Add accepted since it began.
FlushedQuiet == \E p \in Clients : Returned(p, "Flush") /\ ~dirty[p]

\* C6: whenever the processor is stopped (Close has returned) no worker and
\* no flusher is in its loop; a worker that saw the intake closed with a
\* non-empty batch sent that batch in a final commit before it terminated;
\* and, scheduled fairly, a Close in progress returns (unless the program
\* panicked).
C6_CloseJoinsWorkers ==
  /\ [](Stopped =>
          /\ \A w \in WorkerIds : wpc[w] = "none" \/ Terminated(w)
          /\ pc[Flusher] = "none")
  /\ [](\A w \in WorkerIds :
          ((wpc[w] = "deferDone" \/ Terminated(w)) /\ residual[w] # <<>>) =>
            \E i \in DOMAIN log[w] :
              log[w][i].cause = "close" /\ log[w][i].body = bodyAsString(residual[w]))
  /\ \A c \in Clients :
       InClose(c) ~> ((Returned(c, "Close") /\ ~started) \/ crashed)

\* Close has returned after a worker made its final commit of a residual batch.
C6_Witness ==
  /\ Stopped
  /\ \E c \in Clients : Returned(c, "Close")
  /\ \E w \in WorkerIds : Terminated(w) /\ residual[w] # <<>>

\* C7: every accepted record is in exactly one place, a worker's batch or
\* the body of one successful commit; when no commit attempt failed and a
\* Flush has returned with no Add since, or Close has returned, the batches
\* are empty: the committed records are exactly the submitted ones.
C7_CommittedEqualsSubmitted ==
  /\ \A r \in Records :
       Occ(submitted, r) = SumOcc(Committed, WorkerIds, r) + SumOcc(Batches, WorkerIds, r)
  /\ \A w \in WorkerIds : Range(Committed[w]) \subseteq Range(submitted)
  /\ (fails = 0 /\ (FlushedQuiet \/ Stopped)) =>
       /\ \A w \in WorkerIds : svc[w].rows = <<>>
       /\ \A r \in Records : Occ(submitted, r) = SumOcc(Committed, WorkerIds, r)

\* Two records went to two workers and a Flush committed both.
C7_Witness ==
  /\ fails = 0
  /\ FlushedQuiet
  /\ Len(submitted) = 2
  /\ \E v, w \in WorkerIds : v # w /\ Len(Committed[v]) = 1 /\ Len(Committed[w]) = 1

\* No commit trigger is active: both thresholds disabled, no flush interval.
NoTrigger == bulkActions < 0 /\ bulkSize < 0 /\ flushInterval <= 0

\* C8 (as stated): Start returns its configuration error, and spawns
\* nothing, exactly for the configurations with no active commit trigger.
C8_StartRejectsNoTrigger ==
  /\ \A c \in Clients : Returned(c, "Start") => (ret[c] = "err" <=> NoTrigger)
  /\ NoTrigger => nstarts = 0

\* C9: while the processor is started no step replaces the intake channel
\* or the pool or spawns a worker, and no Start returns an error; while it
\* is stopped with the lock free, a step that leaves it stopped closes no
\* channel, takes no lock and waits for nothing, and Close returns nil.
C9_RedundantCallsNoop ==
  [][/\ started =>
          /\ UNCHANGED <<workers, rowsGen, nstarts, numWorkers>>
          /\ workerWg' <= workerWg
          /\ \A w \in WorkerIds : wpc[w] = "none" => wpc'[w] = "none"
          /\ \A c \in Clients : Returned(c, "Start")' => ret'[c] = "nil"
     /\ (Stopped /\ ~started') =>
          /\ UNCHANGED <<startedMu, rowsGen, rowsOpen, stopReconnC, flusherStopC,
                         workers, workerWg>>
          /\ \A c \in Clients : ~InClose(c)'
          /\ \A c \in Clients : Returned(c, "Close")' => ret'[c] = "nil"]_vars

\* Both clients called Start and one pool was spawned: one call was redundant.
C9_Witness ==
  /\ started
  /\ nstarts = 1
  /\ \A c \in Clients : Returned(c, "Start") /\ ret[c] = "nil"

\* C10: an Add completes only in a step in which a worker that is in its
\* select takes the row into its batch; a worker inside commit takes no row
\* and accepts no flush request.
C10_AddRendezvous ==
  [][/\ \A c \in Clients :
          (pc[c] = "addSend" /\ pc'[c] # "addSend" /\ ~crashed') =>
            \E w \in Range(workers) :
              /\ wpc[w] = "select"
              /\ svc'[w].rows = Append(svc[w].rows, arg[c].row)
              /\ submitted' = Append(submitted, arg[c].row)
     /\ submitted' # submitted => \E c \in Clients : pc[c] = "addSend" /\ pc'[c] = "idle"
     /\ \A w \in WorkerIds :
          wpc[w] = "commit" =>
            /\ Len(svc'[w].rows) <= Len(svc[w].rows)
            /\ flushBy'[w] = flushBy[w]
            /\ \A p \in Procs : facc'[p] = facc[p] \/ facc'[p] = <<>> \/ facc'[p][Len(facc'[p])] # w]_vars

\* An Add waits on the open intake channel while every worker of the pool is
\* inside commit.
C10_Witness ==
  /\ rowsOpen
  /\ \E c \in Clients : pc[c] = "addSend" /\ arg[c].ch = rowsGen
  /\ Len(workers) = 2
  /\ \A w \in Range(workers) : wpc[w] = "commit"

\* The commit attempts of worker w's log that branch cause made.
ByCause(w, cause) == {i \in DOMAIN log[w] : log[w][i].cause = cause}

\* The rows a commit attempt carried.
RowsOf(entry) == SplitLines(entry.body, <<>>)

\* Max count k >= 1 is the only threshold.
CountOnly == bulkActions >= 1 /\ bulkSize < 0

Ceil(n, k) == (n + k - 1) \div k

C12_AtMostKPerCommit ==
  CountOnly =>
    \A w \in WorkerIds : \A i \in DOMAIN log[w] :
      Len(RowsOf(log[w][i])) <= bulkActions

RECURSIVE TotalLen(_, _)
\* The number of rows of f[w], summed over the workers ws.
TotalLen(f, ws) ==
  IF ws = {} THEN 0
  ELSE LET w == CHOOSE v \in ws : TRUE
       IN Len(f[w]) + TotalLen(f, ws \ {w})

\* Every record of the scenario was accepted, no commit is running and the
\* caller has not called Flush yet.
ScenarioQuiet ==
  /\ Len(submitted) = ScenarioRecords
  /\ pc[ScenarioCaller] = "idle" /\ op[ScenarioCaller] = "Add"
  /\ \A w \in WorkerIds : wpc[w] # "commit"

CommitGaveUp(w) == wpc[w] # "commit" /\ werr[w] # "nil"

\* C14 (as stated): a commit that failed after its retries were exhausted,
\* on the threshold, flush or close path, has its error delivered to a
\* caller-visible failure-reporting hook.
C14_TerminalFailureReported ==
  \A w \in WorkerIds : CommitGaveUp(w) => FailureReported(w)

\* Worker w takes a record in this step.
Receives(w) == recv'[w] # recv[w]

\* C15: in the step in which a worker appends a record to its batch it
\* enters commit exactly when max count is enabled and the batch has at
\* least that many records, or max byte size is enabled and the records'
\* total length is at least that size; with both thresholds disabled no
\* commit is ever threshold-triggered: every commit attempt comes from a
\* Flush or from Close.
C15_CommitExactlyOnThreshold ==
  /\ [][\A w \in WorkerIds :
          Receives(w) =>
            /\ svc'[w].rows = Append(svc[w].rows, recv'[w][Len(recv'[w])])
            /\ wpc'[w] \in {"commit", "select"}
            /\ wpc'[w] = "commit" <=>
                 \/ bulkActions >= 0 /\ Len(svc'[w].rows) >= bulkActions
                 \/ bulkSize >= 0 /\ SumLen(svc'[w].rows, 1) >= bulkSize
            /\ wpc'[w] = "commit" => wcause'[w] = "threshold"]_vars
  /\ []((bulkActions < 0 /\ bulkSize < 0) =>
          \A w \in WorkerIds :
            /\ ByCause(w, "threshold") = {}
            /\ wpc[w] = "commit" => wcause[w] \in {"flush", "close"})

\* With max byte size 3 the only threshold a worker took a record of one
\* byte without a commit and commits on the next record, of two bytes.
C15_Witness ==
  /\ bulkActions < 0 /\ bulkSize = 3
  /\ \E w \in WorkerIds :
       /\ recv[w] = << <<1>>, <<2, 3>> >>
       /\ svc[w].rows = recv[w]
       /\ log[w] = <<>>
       /\ wpc[w] = "commit" /\ wcause[w] = "threshold"

\* Flush call p is inside its loop over the workers.
InFlush(p) == pc[p] \in {"flushSend", "flushWait"}

\* C16: a worker that accepted a flush request is committing for it or
\* sending its acknowledgment; every acknowledgment a Flush call receives is
\* the one acknowledgment of the worker whose request it accepted last,
\* whatever the outcome of that worker's commit; scheduled fairly, every
\* accepted request is acknowledged, and a Flush call in which a commit
\* failed still gets its request accepted by every worker of the pool
\* (unless the program panicked).
C16_AlwaysOneAck ==
  /\ [](\A w \in WorkerIds :
          /\ flushBy[w] # "none" =>
               (wpc[w] \in {"commit", "ack"} /\ (wpc[w] = "commit" => wcause[w] = "flush"))
          /\ wpc[w] = "ack" => flushBy[w] \in Procs)
  /\ [][\A p \in Procs :
          (fack'[p] # fack[p] /\ fack'[p] # <<>>) =>
            \E w \in WorkerIds :
              /\ wpc[w] = "ack" /\ wpc'[w] = "select"
              /\ flushBy[w] = p /\ flushBy'[w] = "none"
              /\ facc[p][Len(facc[p])] = w
              /\ Len(facc[p]) = Len(fack[p]) + 1
              /\ fack'[p] = Append(fack[p], w)]_vars
  /\ \A w \in WorkerIds :
       (flushBy[w] # "none") ~> (flushBy[w] = "none" \/ crashed)
  /\ \A p \in Procs :
       (InFlush(p) /\ ferr[p]) ~> (facc[p] = fws[p] \/ crashed)

\* In a Flush over a pool of two the commit of the first worker failed, the
\* first worker acknowledged and the second worker accepted the request.
C16_Witness ==
  \E p \in Procs :
    /\ ferr[p]
    /\ Len(fws[p]) = 2
    /\ fack[p] = <<fws[p][1]>>
    /\ facc[p] = fws[p]
    /\ werr[fws[p][1]] # "nil"

\* Worker w is in its loop: in the select, inside commit or acknowledging.
InLoop(w) == wpc[w] \in {"select", "commit", "ack"}

\* C17: once Close has closed the intake channel the flusher has exited (and
\* its stop channel is released); every worker a periodic Flush ranges over
\* is still in its loop, so the flusher never sends on a closed
\* flush-request channel; and, scheduled fairly, a Close that asks the
\* flusher to stop while a periodic Flush is in progress returns (unless the
\* program panicked).
C17_FlusherStopsBeforeIntakeCloses ==
  /\ []((started /\ ~rowsOpen) => (pc[Flusher] = "none" /\ flusherStopC = "nil"))
  /\ [](InFlush(Flusher) =>
          /\ \A i \in DOMAIN fws[Flusher] : InLoop(fws[Flusher][i])
          /\ ~flushCClosed[Cur(Flusher)]
          /\ rowsOpen)
  /\ \A c \in Clients :
       (pc[c] = "closeStopSend" /\ InFlush(Flusher)) ~>
         ((Returned(c, "Close") /\ pc[Flusher] = "none") \/ crashed)

\* Close waits to hand its stop request to the flusher, which is inside a
\* periodic Flush whose worker is committing.
C17_Witness ==
  \E c \in Clients :
    /\ pc[c] = "closeStopSend"
    /\ pc[Flusher] = "flushWait"
    /\ wpc[Cur(Flusher)] = "commit"

\* This step is a Start that brings the processor up.
Starts == ~started /\ started'

\* C18: a Start that brings the processor up, the first one or one after
\* Close has returned, opens a new intake channel and spawns exactly
\* max(1, configured worker count) workers that did not exist before, each
\* in its select with an empty batch and open flush channels, and spawns
\* the flusher exactly when the flush interval is > 0; nothing else is
\* spawned.  At all times only workers of the current pool are in their
\* loops and only they take records, so Add, Flush and Close deal with the
\* new pool as they did with the first.
C18_RestartFromScratch ==
  /\ [][Starts =>
          /\ rowsOpen' /\ rowsGen' = rowsGen + 1
          /\ Len(workers') = (IF numWorkers < 1 THEN 1 ELSE numWorkers)
          /\ workerWg = 0 /\ workerWg' = Len(workers')
          /\ \A i, j \in DOMAIN workers' : i # j => workers'[i] # workers'[j]
          /\ \A w \in Range(workers') :
               /\ w \notin Range(workers)
               /\ wpc[w] = "none" /\ wpc'[w] = "select"
               /\ svc'[w] = NewBulkService
               /\ ~flushCClosed'[w] /\ ~flushAckCClosed'[w]
               /\ recv'[w] = <<>> /\ log'[w] = <<>>
          /\ \A w \in WorkerIds \ Range(workers') : wpc'[w] = wpc[w] /\ ~InLoop(w)
          /\ pc[Flusher] = "none"
          /\ IF flushInterval > 0
             THEN pc'[Flusher] = "select" /\ flusherStopC' = "open"
             ELSE pc'[Flusher] = "none" /\ flusherStopC' = "nil"]_vars
  /\ [][\A w \in WorkerIds : Receives(w) => w \in Range(workers)]_vars
  /\ [](\A w \in WorkerIds : InLoop(w) => (started /\ w \in Range(workers)))
  /\ []((started /\ rowsOpen) => \A w \in Range(workers) : InLoop(w))

\* After Start, Close and a second Start a worker of the second pool took a
\* record and committed it.
C18_Witness ==
  /\ nstarts = 2
  /\ started
  /\ \E w \in Range(workers) : \E i \in DOMAIN log[w] : log[w][i].ok

RECURSIVE BytesOf(_)
\* The sum of the byte lengths of the records rows.
BytesOf(rows) ==
  IF rows = <<>> THEN 0 ELSE Len(Head(rows)) + BytesOf(Tail(rows))

\* C19: for every service, after any sequence of Add, EstimatedSizeInBytes,
\* Reset and Do, the size cursor is between 0 and the record count, the
\* running total is the sum of the lengths of the records before the cursor
\* (each counted once), EstimatedSizeInBytes returns the sum of the lengths
\* of all records of the batch and leaves the cursor at the record count,
\* and calling it again changes nothing.
C19_SizeIsSumOfLengths ==
  \A w \in WorkerIds :
    LET s == svc[w]
        e == EstimatedSizeInBytes(s)
    IN /\ s.sizeInBytesCursor \in 0 .. Len(s.rows)
       /\ s.sizeInBytes = BytesOf(SubSeq(s.rows, 1, s.sizeInBytesCursor))
       /\ e.sizeInBytes = BytesOf(s.rows)
       /\ e.sizeInBytesCursor = Len(s.rows)
       /\ e.rows = s.rows
       /\ EstimatedSizeInBytes(e) = e

\* A batch of records of different lengths whose first record has been
\* counted and whose later records have not.
C19_Witness ==
  /\ Len(svc[1].rows) >= 3
  /\ svc[1].sizeInBytesCursor = 1
  /\ svc[1].sizeInBytes = Len(svc[1].rows[1])
  /\ \E i, j \in DOMAIN svc[1].rows : Len(svc[1].rows[i]) # Len(svc[1].rows[j])

\* C20 (as stated): a manual Flush, however it interleaves with Close and
\* also when it starts after Close has returned, never has a closed
\* flush-request channel as the target of its send (the send would panic).
C20_FlushNeverSendsOnClosed ==
  \A p \in Clients : pc[p] = "flushSend" => ~flushCClosed[Cur(p)]

\* Flush call p is in progress on the pool of a started processor whose
\* intake is open.
FlushOnStarted(p) == InFlush(p) /\ started /\ rowsOpen /\ fws[p] = workers

\* The Flush calls waiting on worker w's acknowledgment channel.
AckWaiters(w) == {p \in Procs : pc[p] = "flushWait" /\ Cur(p) = w}

\* C21: with any number of Flush calls in progress (manual ones and the
\* flusher's), the only call waiting on a worker's acknowledgment channel is
\* the one whose request that worker accepted last, so every acknowledgment
\* goes to that call and to no other; a call that has returned was
\* acknowledged by every worker of the pool for its own requests, in pool
\* order; and, scheduled fairly, every Flush call on the pool of a started
\* processor returns unless Close closes the intake first, and every worker
\* that acknowledges gets back to its select (unless the program panicked).
C21_ConcurrentFlushes ==
  /\ [](\A w \in WorkerIds :
          /\ Cardinality(AckWaiters(w)) <= 1
          /\ AckWaiters(w) = {p \in Procs : flushBy[w] = p})
  /\ [][\A w \in WorkerIds :
          (wpc[w] = "ack" /\ wpc'[w] # "ack") =>
            /\ wpc'[w] = "select"
            /\ fack'[flushBy[w]] = Append(fack[flushBy[w]], w)
            /\ \A q \in Procs \ {flushBy[w]} : fack'[q] = fack[q]]_vars
  /\ [](\A p \in Procs :
          Returned(p, "Flush") => (facc[p] = fws[p] /\ fack[p] = facc[p]))
  /\ \A p \in Procs :
       FlushOnStarted(p) ~> (Returned(p, "Flush") \/ ~rowsOpen \/ crashed)
  /\ \A w \in WorkerIds : (wpc[w] = "ack") ~> (wpc[w] = "select" \/ crashed)

\* Two Flush calls are in progress on the same worker: the worker is about
\* to acknowledge the request of one call while the other call waits to
\* send its request.
C21_Witness ==
  \E p, q \in Procs :
    /\ p # q
    /\ pc[p] = "flushWait" /\ pc[q] = "flushSend"
    /\ Cur(p) = Cur(q)
    /\ wpc[Cur(p)] = "ack"
    /\ flushBy[Cur(p)] = p

====
